---- MODULE Spec2Model ----
(***************************************************************************)
(* Model of the local retrieval index MyDataSource                         *)
(* (src/src/app/myDataSource.ts): paragraph chunking, keyword extraction,  *)
(* relevance scoring, top-K search and context rendering.                  *)
(*                                                                         *)
(* Texts are TLA+ strings; a character is a string of length one.          *)
(* Scores are fixed-point numbers in thousandths (0.5 is 500).             *)
(***************************************************************************)
EXTENDS Integers, Sequences, FiniteSets, TLC

VARIABLES
    text,        \* chunker harness: the text handed to splitIntoChunks
    nPieces,     \* chunker harness: how many pieces the text was built from
    maxSize,     \* chunker harness: the budget handed to splitIntoChunks
    out,         \* chunker harness: the chunks splitIntoChunks returned
    phase,       \* chunker harness: "idle", "input" while the text is built, "split" after the call
    _data,       \* MyDataSource._data: the document store
    _chunks,     \* MyDataSource._chunks: the chunk store
    _config,     \* MyDataSource._config
    lastOp,      \* the public method that ran last ("new" after the constructor)
    initOutcome, \* how the last init ended: "none", "missing", "threw" or "loaded"
    query,       \* the argument, when the last method was search or renderContext
    results,     \* what search returned, when the last method called it
    rendered,    \* what renderContext returned, when it was the last method
    docs,        \* what getAllDocuments returned, when it was the last method
    loaded,      \* history: the stores as the constructor or the last init left them
    repeated     \* history: the last method is a reader that ran right after a reader

chunkVars == <<text, nPieces, maxSize, out, phase>>

dsVars == <<_data, _chunks, _config, lastOp, initOutcome, query, results, rendered,
            docs, loaded, repeated>>

vars == <<chunkVars, dsVars>>

----------------------------------------------------------------------------
(* Bounds *)

MaxPieces == 5
MaxBudget == 3
MaxFiles == 2
MaxTopK == 2

----------------------------------------------------------------------------
(* Strings *)

CharAt(s, i) == SubSeq(s, i, i)

From(s, i) == SubSeq(s, i, Len(s))

\* What String.prototype.trim and the regular expression class \s remove.
WhiteSpace == {" ", "\n", "\t", "\r"}

RECURSIVE trimStart(_)
trimStart(s) ==
    IF s # "" /\ CharAt(s, 1) \in WhiteSpace THEN trimStart(From(s, 2)) ELSE s

RECURSIVE trimEnd(_)
trimEnd(s) ==
    IF s # "" /\ CharAt(s, Len(s)) \in WhiteSpace
    THEN trimEnd(SubSeq(s, 1, Len(s) - 1))
    ELSE s

trim(s) == trimEnd(trimStart(s))

\* Length of the run of characters of seps that starts at position i of s.
RECURSIVE RunLen(_, _, _)
RunLen(s, i, seps) ==
    IF i <= Len(s) /\ CharAt(s, i) \in seps THEN 1 + RunLen(s, i + 1, seps) ELSE 0

\* First position >= i of s where a run of at least minRun separators
\* starts, or 0 when there is none.
RECURSIVE FindRun(_, _, _, _)
FindRun(s, i, seps, minRun) ==
    IF i > Len(s) THEN 0
    ELSE IF RunLen(s, i, seps) >= minRun THEN i
    ELSE FindRun(s, i + 1, seps, minRun)

\* String.prototype.split on the regular expression [seps]{minRun,}
\* (greedy, leftmost): the pieces between the separator runs, empty pieces
\* at both ends included.
RECURSIVE split(_, _, _)
split(s, seps, minRun) ==
    LET i == FindRun(s, 1, seps, minRun)
    IN  IF i = 0 THEN <<s>>
        ELSE <<SubSeq(s, 1, i - 1)>>
                 \o split(From(s, i + RunLen(s, i, seps)), seps, minRun)

----------------------------------------------------------------------------
(* Chunker *)

\* Math.ceil(s.length / 4)
approxTokens(s) == (Len(s) + 3) \div 4

\* Mutant of overBudget: the flush test looks at the paragraph alone.
overBudgetParagraphOnly(currentTokens, paraTokens, max) == paraTokens > max

\* Mutant of overBudget: the flush test is off by one.
overBudgetOffByOne(currentTokens, paraTokens, max) == currentTokens + paraTokens > max + 1

\* The budget half of the flush test.
overBudget(currentTokens, paraTokens, max) == currentTokens + paraTokens > max

\* Mutant of flushOverBudget: the chunk being flushed is lost.
flushDropsCurrent(st, trimmedPara) ==
    [chunks |-> st.chunks, currentChunk |-> trimmedPara]

\* The flush branch: emit the current chunk, start a new one with the paragraph.
flushOverBudget(st, trimmedPara) ==
    [chunks |-> Append(st.chunks, trim(st.currentChunk)), currentChunk |-> trimmedPara]

\* One iteration of the loop of splitIntoChunks over a paragraph; st is
\* [chunks, currentChunk].
chunkStep(st, paragraph, max) ==
    LET trimmedPara == trim(paragraph)
        currentTokens == approxTokens(st.currentChunk)
        paraTokens == approxTokens(trimmedPara)
    IN  IF trimmedPara = "" THEN st
        ELSE IF overBudget(currentTokens, paraTokens, max) /\ st.currentChunk # ""
        THEN flushOverBudget(st, trimmedPara)
        ELSE [st EXCEPT !.currentChunk =
                 st.currentChunk \o (IF st.currentChunk # "" THEN "\n\n" ELSE "")
                                 \o trimmedPara]

RECURSIVE chunkLoop(_, _, _)
chunkLoop(st, paragraphs, max) ==
    IF paragraphs = <<>> THEN st
    ELSE chunkLoop(chunkStep(st, Head(paragraphs), max), Tail(paragraphs), max)

splitIntoChunks(txt, max) ==
    LET paragraphs == split(txt, {"\n"}, 2)
        st == chunkLoop([chunks |-> <<>>, currentChunk |-> ""], paragraphs, max)
        chunks == IF trim(st.currentChunk) # ""
                  THEN Append(st.chunks, trim(st.currentChunk))
                  ELSE st.chunks
    IN  IF Len(chunks) > 0 THEN chunks ELSE <<txt>>

chunkDocuments(documents, max) ==
    LET RECURSIVE each(_)
        each(ds) ==
            IF ds = <<>> THEN <<>>
            ELSE LET docChunks == splitIntoChunks(Head(ds).content, max)
                 IN  [index \in 1..Len(docChunks) |->
                         [content |-> docChunks[index],
                          citation |-> Head(ds).citation,
                          chunkIndex |-> index - 1,
                          totalChunks |-> Len(docChunks)]] \o each(Tail(ds))
    IN  each(documents)

----------------------------------------------------------------------------
(* Tokenizer / keyword extractor *)

STOP_WORDS ==
    {"a", "an", "and", "are", "as", "at", "be", "by", "for", "from",
     "has", "he", "in", "is", "it", "its", "of", "on", "that", "the",
     "to", "was", "were", "will", "with", "what", "how", "why", "when",
     "where", "who", "which", "can", "do", "does", "did", "have", "had",
     "me", "my", "about", "tell", "explain", "describe", "i", "you", "your"}

UpperLetters == "ABCDEFGHIJKLMNOPQRSTUVWXYZ"
LowerLetters == "abcdefghijklmnopqrstuvwxyz"
Digits == "0123456789"

CharsOf(s) == {CharAt(s, i) : i \in 1..Len(s)}

\* The regular expression class \w.
WordChars == CharsOf(UpperLetters) \cup CharsOf(LowerLetters) \cup CharsOf(Digits) \cup {"_"}

lowerOf ==
    [c \in CharsOf(UpperLetters) |->
        CharAt(LowerLetters, CHOOSE i \in 1..Len(UpperLetters) : CharAt(UpperLetters, i) = c)]

lowerChar(c) == IF c \in DOMAIN lowerOf THEN lowerOf[c] ELSE c

RECURSIVE toLowerCase(_)
toLowerCase(s) ==
    IF s = "" THEN "" ELSE lowerChar(CharAt(s, 1)) \o toLowerCase(From(s, 2))

\* replace(/[^\w\s]/g, ' ')
RECURSIVE blankPunctuation(_)
blankPunctuation(s) ==
    IF s = "" THEN ""
    ELSE (IF CharAt(s, 1) \in WordChars \cup WhiteSpace THEN CharAt(s, 1) ELSE " ")
             \o blankPunctuation(From(s, 2))

RECURSIVE keepKeywords(_)
keepKeywords(words) ==
    IF words = <<>> THEN <<>>
    ELSE IF Len(Head(words)) > 2 /\ Head(words) \notin STOP_WORDS
    THEN <<Head(words)>> \o keepKeywords(Tail(words))
    ELSE keepKeywords(Tail(words))

extractKeywords(q) ==
    keepKeywords(split(blankPunctuation(toLowerCase(q)), WhiteSpace, 1))

----------------------------------------------------------------------------
(* Scorer.  Scores are in thousandths. *)

\* Math.log(1 + n) for n = 1..8, in thousandths.
LogOnePlus == <<693, 1099, 1386, 1609, 1792, 1946, 2079, 2197>>

\* Math.sqrt(n) for n = 1..6, in thousandths.
SquareRoot == <<1000, 1414, 1732, 2000, 2236, 2449>>

isWordAt(s, i) == i >= 1 /\ i <= Len(s) /\ CharAt(s, i) \in WordChars

\* The assertion \b between positions i - 1 and i of s.
wordBoundaryBefore(s, i) == isWordAt(s, i - 1) # isWordAt(s, i)

\* Number of matches of the global regular expression \bkeyword\b in s from
\* position i on; the keyword is made of word characters only.
RECURSIVE countMatches(_, _, _)
countMatches(s, keyword, i) ==
    LET n == Len(keyword)
    IN  IF i + n - 1 > Len(s) THEN 0
        ELSE IF /\ SubSeq(s, i, i + n - 1) = keyword
                /\ wordBoundaryBefore(s, i)
                /\ wordBoundaryBefore(s, i + n)
        THEN 1 + countMatches(s, keyword, i + n)
        ELSE countMatches(s, keyword, i + 1)

RECURSIVE scoreLoop(_, _, _)
scoreLoop(contentLower, keywords, acc) ==
    IF keywords = <<>> THEN acc
    ELSE LET matches == countMatches(contentLower, toLowerCase(Head(keywords)), 1)
         IN  scoreLoop(contentLower, Tail(keywords),
                       IF matches > 0
                       THEN [score |-> acc.score + LogOnePlus[matches],
                             matchedKeywords |-> acc.matchedKeywords + 1]
                       ELSE acc)

calculateScore(content, keywords) ==
    IF Len(keywords) = 0 THEN 0
    ELSE LET acc == scoreLoop(toLowerCase(content), keywords,
                              [score |-> 0, matchedKeywords |-> 0])
         IN  (acc.score * acc.matchedKeywords * 1000)
                 \div (Len(keywords) * SquareRoot[Len(keywords)])

----------------------------------------------------------------------------
(* Retrieval index *)

\* The sentinel score of the keyword-less fallback, 0.5.
FallbackScore == 500

\* Mutant of meetsMinScore: the threshold is never applied.
meetsMinScoreAlways(score, minScore) == TRUE

meetsMinScore(score, minScore) == score >= minScore

RECURSIVE filterByScore(_, _)
filterByScore(cs, minScore) ==
    IF cs = <<>> THEN <<>>
    ELSE IF meetsMinScore(Head(cs).score, minScore)
    THEN <<Head(cs)>> \o filterByScore(Tail(cs), minScore)
    ELSE filterByScore(Tail(cs), minScore)

\* Array.prototype.sort with the comparator (a, b) => b.score - a.score:
\* stable, descending by score.
RECURSIVE insertByScore(_, _)
insertByScore(sorted, c) ==
    IF sorted = <<>> THEN <<c>>
    ELSE IF Head(sorted).score >= c.score
    THEN <<Head(sorted)>> \o insertByScore(Tail(sorted), c)
    ELSE <<c>> \o sorted

RECURSIVE sortByScore(_)
sortByScore(cs) ==
    IF cs = <<>> THEN <<>>
    ELSE insertByScore(sortByScore(SubSeq(cs, 1, Len(cs) - 1)), cs[Len(cs)])

\* Mutant of sliceTopK: one result too many.
sliceTopKPlusOne(cs, topK) ==
    SubSeq(cs, 1, IF topK + 1 < Len(cs) THEN topK + 1 ELSE Len(cs))

\* slice(0, topK)
sliceTopK(cs, topK) ==
    SubSeq(cs, 1, IF topK < Len(cs) THEN topK ELSE Len(cs))

scoreChunks(chunks, keywords) ==
    [i \in 1..Len(chunks) |->
        [content |-> chunks[i].content,
         citation |-> chunks[i].citation,
         chunkIndex |-> chunks[i].chunkIndex,
         totalChunks |-> chunks[i].totalChunks,
         score |-> calculateScore(chunks[i].content, keywords)]]

toSearchResults(cs) ==
    [i \in 1..Len(cs) |->
        [content |-> cs[i].content, citation |-> cs[i].citation, score |-> cs[i].score]]

\* Mutant of fallbackResult: the fallback answers with the first chunk.
fallbackFirstChunk(data, chunks) ==
    IF Len(data) > 0
    THEN <<[content |-> chunks[1].content,
            citation |-> chunks[1].citation,
            score |-> FallbackScore]>>
    ELSE <<>>

\* The keyword-less fallback of search.
fallbackResult(data, chunks) ==
    IF Len(data) > 0
    THEN <<[content |-> data[1].content,
            citation |-> data[1].citation,
            score |-> FallbackScore]>>
    ELSE <<>>

search(q, data, chunks, config) ==
    IF q = "" THEN <<>>
    ELSE LET keywords == extractKeywords(q)
         IN  IF Len(keywords) = 0 THEN fallbackResult(data, chunks)
             ELSE toSearchResults(
                      sliceTopK(
                          sortByScore(
                              filterByScore(scoreChunks(chunks, keywords),
                                            config.minScore)),
                          config.topK))

\* Mutant of chunksAfterSearch: search sorts the chunk store itself.
chunksAfterSearchSortedInPlace(q, chunks) ==
    IF q = "" \/ Len(extractKeywords(q)) = 0 THEN chunks
    ELSE LET scored == sortByScore(scoreChunks(chunks, extractKeywords(q)))
         IN  [i \in 1..Len(scored) |->
                 [content |-> scored[i].content,
                  citation |-> scored[i].citation,
                  chunkIndex |-> scored[i].chunkIndex,
                  totalChunks |-> scored[i].totalChunks]]

\* The chunk store after search: map and filter build new arrays, and sort
\* runs on the filtered copy.
chunksAfterSearch(q, chunks) == chunks

formatDocument(content, citation) ==
    "<context source=\"" \o citation \o "\">\n" \o content \o "\n</context>"

RECURSIVE renderLoop(_, _)
renderLoop(searchResults, acc) ==
    IF searchResults = <<>> THEN acc
    ELSE LET result == Head(searchResults)
         IN  renderLoop(Tail(searchResults),
                        [contextContent |->
                             acc.contextContent
                                 \o formatDocument(result.content, result.citation)
                                 \o "\n\n",
                         sources |-> Append(acc.sources, result.citation)])

\* Mutant of collectSources: a citation is listed once.
collectSourcesOnce(sources) ==
    LET RECURSIVE dedupe(_, _)
        dedupe(rest, seen) ==
            IF rest = <<>> THEN <<>>
            ELSE IF Head(rest) \in seen THEN dedupe(Tail(rest), seen)
            ELSE <<Head(rest)>> \o dedupe(Tail(rest), seen \cup {Head(rest)})
    IN  dedupe(sources, {})

\* The sources renderContext returns: the array the loop pushed onto.
collectSources(sources) == sources

renderContext(searchResults) ==
    IF Len(searchResults) = 0 THEN [content |-> "", sources |-> <<>>]
    ELSE LET acc == renderLoop(searchResults, [contextContent |-> "", sources |-> <<>>])
         IN  [content |-> trim(acc.contextContent), sources |-> collectSources(acc.sources)]

\* readFileSync inside try/catch, then trim: an unreadable entry reads as "".
readFile(file) ==
    [content |-> IF file.readable THEN trim(file.raw) ELSE "", citation |-> file.name]

RECURSIVE loadFiles(_)
loadFiles(files) ==
    IF files = <<>> THEN <<>>
    ELSE LET item == readFile(Head(files))
         IN  IF Len(item.content) > 0 THEN <<item>> \o loadFiles(Tail(files))
             ELSE loadFiles(Tail(files))

\* Mutant of initLoaded: the chunk store is not recomputed.
initLoadedKeepsChunks(files, old, config) ==
    [data |-> loadFiles(files), chunks |-> old.chunks]

\* init when the directory was listed: both stores are replaced.
initLoaded(files, old, config) ==
    LET data == loadFiles(files)
    IN  [data |-> data, chunks |-> chunkDocuments(data, config.maxChunkSize)]

\* init when existsSync is false: warn and return.
initMissing(old) == old

----------------------------------------------------------------------------
(* The data source as a state machine: the constructor, then any sequence *)
(* of init, search, renderContext and getAllDocuments.                     *)

\* Entries the data directory can hold.
Files ==
    {[name |-> "fox.txt", readable |-> TRUE,
      raw |-> "Fox, red fox.\n\nA fox sat.\n"],
     [name |-> "cat.txt", readable |-> TRUE,
      raw |-> "Cat, cat, FOX!\n\n\n A fox_cat. "],
     [name |-> "blank.txt", readable |-> TRUE, raw |-> " \n\n "],
     [name |-> "locked.txt", readable |-> FALSE, raw |-> ""]}

\* What readdirSync can return: up to MaxFiles distinct entries, in any order.
Listings ==
    UNION {{l \in [1..n -> Files] : \A i, j \in 1..n : l[i] = l[j] => i = j} :
              n \in 0..MaxFiles}

Queries == {"", "fox", "What is it?", "Fox CAT", "cat cat sat", "zebra"}

\* The configurations the constructor is given: the defaults and overrides.
Configs ==
    [maxChunkSize : {4, 800}, topK : 1..MaxTopK, minScore : {100, 300, 600}]

NoRendered == [content |-> "", sources |-> <<>>]

Init ==
    /\ text = "" /\ nPieces = 0 /\ maxSize = 0 /\ out = <<>> /\ phase = "idle"
    /\ _config \in Configs
    /\ _data = <<>>
    /\ _chunks = <<>>
    /\ lastOp = "new"
    /\ initOutcome = "none"
    /\ query = ""
    /\ results = <<>>
    /\ rendered = NoRendered
    /\ docs = <<>>
    /\ loaded = [data |-> <<>>, chunks |-> <<>>, config |-> _config]
    /\ repeated = FALSE

\* init(): the data directory does not exist.
InitDirMissing ==
    /\ LET new == initMissing([data |-> _data, chunks |-> _chunks])
       IN  /\ _data' = new.data
           /\ _chunks' = new.chunks
           /\ loaded' = [data |-> new.data, chunks |-> new.chunks, config |-> _config]
    /\ lastOp' = "init"
    /\ initOutcome' = "missing"
    /\ repeated' = FALSE
    /\ UNCHANGED <<_config, chunkVars>>
    /\ query' = "" /\ results' = <<>> /\ rendered' = NoRendered /\ docs' = <<>>

\* init(): the path exists but readdirSync throws (not a directory, no
\* permission); the exception leaves init before any assignment.
InitDirThrows ==
    /\ lastOp' = "init"
    /\ initOutcome' = "threw"
    /\ repeated' = FALSE
    /\ loaded' = [data |-> _data, chunks |-> _chunks, config |-> _config]
    /\ UNCHANGED <<_data, _chunks, _config, chunkVars>>
    /\ query' = "" /\ results' = <<>> /\ rendered' = NoRendered /\ docs' = <<>>

\* init(): the directory is listed and its entries are read.  (The stores
\* are bound with \E over a singleton so that they are computed once.)
InitDirListed ==
    /\ \E files \in Listings :
          \E new \in {initLoaded(files, [data |-> _data, chunks |-> _chunks], _config)} :
              /\ _data' = new.data
              /\ _chunks' = new.chunks
              /\ loaded' = [data |-> new.data, chunks |-> new.chunks, config |-> _config]
    /\ lastOp' = "init"
    /\ initOutcome' = "loaded"
    /\ repeated' = FALSE
    /\ UNCHANGED <<_config, chunkVars>>
    /\ query' = "" /\ results' = <<>> /\ rendered' = NoRendered /\ docs' = <<>>

Search ==
    /\ \E q \in Queries :
          /\ query' = q
          /\ results' = search(q, _data, _chunks, _config)
          /\ _chunks' = chunksAfterSearch(q, _chunks)
    /\ lastOp' = "search"
    /\ repeated' = (lastOp \in {"search", "renderContext", "getAllDocuments"})
    /\ rendered' = NoRendered /\ docs' = <<>>
    /\ UNCHANGED <<_data, _config, initOutcome, loaded, chunkVars>>

RenderContext ==
    /\ \E q \in Queries :
          /\ query' = q
          /\ results' = search(q, _data, _chunks, _config)
          /\ _chunks' = chunksAfterSearch(q, _chunks)
    /\ rendered' = renderContext(results')
    /\ lastOp' = "renderContext"
    /\ repeated' = (lastOp \in {"search", "renderContext", "getAllDocuments"})
    /\ docs' = <<>>
    /\ UNCHANGED <<_data, _config, initOutcome, loaded, chunkVars>>

GetAllDocuments ==
    /\ docs' = _data
    /\ lastOp' = "getAllDocuments"
    /\ repeated' = (lastOp \in {"search", "renderContext", "getAllDocuments"})
    /\ query' = "" /\ results' = <<>> /\ rendered' = NoRendered
    /\ UNCHANGED <<_data, _chunks, _config, initOutcome, loaded, chunkVars>>

Next ==
    \/ InitDirMissing
    \/ InitDirThrows
    \/ InitDirListed
    \/ Search
    \/ RenderContext
    \/ GetAllDocuments

Spec == Init /\ [][Next]_vars

----------------------------------------------------------------------------
(* Chunker harness: build a text piece by piece, then split it. *)

Pieces == {"a", "bbbb", "ccccc", " ", "\n", "\n\n"}

Budgets == 0..MaxBudget

InitChunk ==
    /\ text = ""
    /\ nPieces = 0
    /\ maxSize = 0
    /\ out = <<>>
    /\ phase = "input"
    /\ _config = [maxChunkSize |-> 800, topK |-> 3, minScore |-> 100]
    /\ _data = <<>>
    /\ _chunks = <<>>
    /\ lastOp = "new"
    /\ initOutcome = "none"
    /\ query = ""
    /\ results = <<>>
    /\ rendered = NoRendered
    /\ docs = <<>>
    /\ loaded = [data |-> <<>>, chunks |-> <<>>, config |-> _config]
    /\ repeated = FALSE

TypePiece ==
    /\ phase = "input"
    /\ nPieces < MaxPieces
    /\ \E p \in Pieces : text' = text \o p
    /\ nPieces' = nPieces + 1
    /\ UNCHANGED <<maxSize, out, phase, dsVars>>

CallSplit ==
    /\ phase = "input"
    /\ \E m \in Budgets :
          /\ maxSize' = m
          /\ out' = splitIntoChunks(text, m)
    /\ phase' = "split"
    /\ UNCHANGED <<text, nPieces, dsVars>>

NextChunk == TypePiece \/ CallSplit

SpecChunk == InitChunk /\ [][NextChunk]_vars

----------------------------------------------------------------------------
(* Properties of the chunker *)

RECURSIVE dropEmpty(_)
dropEmpty(ps) ==
    IF ps = <<>> THEN <<>>
    ELSE IF trim(Head(ps)) = "" THEN dropEmpty(Tail(ps))
    ELSE <<trim(Head(ps))>> \o dropEmpty(Tail(ps))

\* The paragraph sequence of a text: its trimmed, non-empty paragraphs.
paragraphsOf(t) == dropEmpty(split(t, {"\n"}, 2))

RECURSIVE joinBlank(_)
joinBlank(cs) ==
    IF cs = <<>> THEN ""
    ELSE IF Len(cs) = 1 THEN cs[1]
    ELSE cs[1] \o "\n\n" \o joinBlank(Tail(cs))

RECURSIVE paragraphsOfAll(_)
paragraphsOfAll(cs) ==
    IF cs = <<>> THEN <<>> ELSE paragraphsOf(Head(cs)) \o paragraphsOfAll(Tail(cs))

\* C4: for every non-empty text and every maxSize, splitIntoChunks returns
\* at least one chunk; re-joining the chunks with blank lines and
\* re-splitting gives the paragraph sequence of the text, and so does
\* concatenating the paragraph sequences of the chunks one by one (no
\* paragraph is split across chunks, dropped, duplicated or reordered).
ChunksKeepParagraphs ==
    (phase = "split" /\ text # "") =>
        /\ Len(out) >= 1
        /\ paragraphsOf(joinBlank(out)) = paragraphsOf(text)
        /\ paragraphsOfAll(out) = paragraphsOf(text)

\* A text of three paragraphs was split into more than one chunk, one of
\* them holding two paragraphs.
ChunksKeepParagraphsWitness ==
    /\ phase = "split"
    /\ Len(paragraphsOf(text)) = 3
    /\ Len(out) = 2
    /\ \E i \in 1..Len(out) : Len(paragraphsOf(out[i])) = 2

\* C9: a paragraph whose estimated token count exceeds maxSize is alone in
\* its chunk, whatever precedes or follows it.
OversizedParagraphAlone ==
    phase = "split" =>
        \A i \in 1..Len(out) :
            LET ps == paragraphsOf(out[i])
            IN  (\E k \in 1..Len(ps) : approxTokens(ps[k]) > maxSize) => Len(ps) = 1

\* An oversized paragraph stands between two paragraphs that fit the
\* budget, and budget is positive.
OversizedParagraphAloneWitness ==
    /\ phase = "split"
    /\ maxSize >= 1
    /\ LET ps == paragraphsOf(text)
       IN  /\ Len(ps) = 3
           /\ approxTokens(ps[1]) <= maxSize
           /\ approxTokens(ps[2]) > maxSize
           /\ approxTokens(ps[3]) <= maxSize
    /\ Len(out) = 3

\* C10: with a positive budget, a chunk of two or more paragraphs has an
\* estimated token count of at most maxSize + 1.
MultiParagraphChunkWithinBudgetPlusOne ==
    (phase = "split" /\ maxSize >= 1) =>
        \A i \in 1..Len(out) :
            Len(paragraphsOf(out[i])) >= 2 => approxTokens(out[i]) <= maxSize + 1

\* A chunk of two paragraphs whose estimate is exactly maxSize + 1.
MultiParagraphChunkWitness ==
    /\ phase = "split"
    /\ maxSize >= 1
    /\ \E i \in 1..Len(out) :
          /\ Len(paragraphsOf(out[i])) >= 2
          /\ approxTokens(out[i]) = maxSize + 1

----------------------------------------------------------------------------
(* Properties of the data source *)

sortedByScore(rs) == \A i, j \in 1..Len(rs) : i < j => rs[i].score >= rs[j].score

\* The chunks of the store that pass the threshold for the last query.
passing == filterByScore(scoreChunks(_chunks, extractKeywords(query)), _config.minScore)

\* C1: search returns at most topK results, on the scored path and on the
\* keyword-less fallback path.
SearchAtMostTopK ==
    lastOp = "search" => Len(results) <= _config.topK

\* More chunks pass the threshold than topK allows, and search returned
\* exactly topK of them.
SearchAtMostTopKWitness ==
    /\ lastOp = "search"
    /\ Len(extractKeywords(query)) > 0
    /\ Len(passing) > _config.topK
    /\ Len(results) = _config.topK

\* C2 as stated: for any query, the results of search are sorted by
\* non-increasing score and none has a score below minScore.
SearchSortedAndNoneBelowMinScore ==
    lastOp = "search" =>
        /\ sortedByScore(results)
        /\ \A i \in 1..Len(results) : results[i].score >= _config.minScore

\* C2 as amended: the results of search are sorted by non-increasing score,
\* and when the query has at least one keyword none has a score below
\* minScore; the keyword-less fallback result has the score 0.5 whatever
\* minScore is.
SearchSortedAndScoredNoneBelowMinScore ==
    lastOp = "search" =>
        /\ sortedByScore(results)
        /\ Len(extractKeywords(query)) > 0 =>
               \A i \in 1..Len(results) : results[i].score >= _config.minScore
        /\ (query # "" /\ Len(extractKeywords(query)) = 0) =>
               \A i \in 1..Len(results) : results[i].score = FallbackScore

\* A query with keywords returned two results of different scores while a
\* chunk that matched a keyword was left out for scoring below minScore.
SearchSortedWitness ==
    /\ lastOp = "search"
    /\ Len(extractKeywords(query)) > 0
    /\ Len(results) = 2
    /\ results[1].score > results[2].score
    /\ Len(results) = Len(passing)
    /\ \E i \in 1..Len(_chunks) :
          LET score == calculateScore(_chunks[i].content, extractKeywords(query))
          IN  score > 0 /\ score < _config.minScore

\* C3: a non-empty query without keywords returns exactly the first
\* document, whole, with score 0.5, or nothing when no document is loaded;
\* the empty query returns nothing.
FallbackReturnsFirstDocument ==
    lastOp = "search" =>
        /\ query = "" => results = <<>>
        /\ (query # "" /\ Len(extractKeywords(query)) = 0) =>
               IF Len(_data) > 0
               THEN results = <<[content |-> _data[1].content,
                                 citation |-> _data[1].citation,
                                 score |-> 500]>>
               ELSE results = <<>>

\* The fallback answered with a document that the chunk store holds in
\* more than one chunk.
FallbackReturnsFirstDocumentWitness ==
    /\ lastOp = "search"
    /\ query # ""
    /\ Len(extractKeywords(query)) = 0
    /\ Len(results) = 1
    /\ _chunks[1].totalChunks > 1
    /\ results[1].content = _data[1].content
    /\ results[1].content # _chunks[1].content

\* C5: between any two calls the chunk store is chunkDocuments of the
\* document store under maxChunkSize: every chunk cites a stored document
\* and every stored document has its chunks.
ChunkStoreDerivedFromDocuments ==
    /\ _chunks = chunkDocuments(_data, _config.maxChunkSize)
    /\ \A i \in 1..Len(_chunks) :
          \E d \in 1..Len(_data) : _chunks[i].citation = _data[d].citation
    /\ \A d \in 1..Len(_data) :
          \E i \in 1..Len(_chunks) : _chunks[i].citation = _data[d].citation

\* A search ran on a store of two documents held in four chunks.
ChunkStoreDerivedWitness ==
    /\ lastOp \in {"search", "renderContext"}
    /\ initOutcome = "loaded"
    /\ Len(_data) = 2
    /\ Len(_chunks) = 4

\* C6 as stated: after an init that finds the data directory missing, both
\* stores are empty, so that search returns nothing for every query.
MissingSourceLeavesStoresEmpty ==
    (lastOp = "init" /\ initOutcome = "missing") =>
        /\ _data = <<>>
        /\ _chunks = <<>>
        /\ \A q \in Queries : search(q, _data, _chunks, _config) = <<>>

\* C7: renderContext returns the empty context exactly when search returns
\* nothing; otherwise sources are the citations of the results in rank
\* order, duplicates kept, and content is the citation-tagged blocks of the
\* results in that order, a blank line between two blocks.
RenderContextMirrorsSearch ==
    lastOp = "renderContext" =>
        LET rs == search(query, _data, _chunks, _config)
            blocks == [i \in 1..Len(rs) |->
                          "<context source=\"" \o rs[i].citation \o "\">\n"
                              \o rs[i].content \o "\n</context>"]
        IN  /\ rendered = [content |-> "", sources |-> <<>>] <=> Len(rs) = 0
            /\ Len(rs) > 0 =>
                   /\ rendered.sources = [i \in 1..Len(rs) |-> rs[i].citation]
                   /\ rendered.content = joinBlank(blocks)

\* Two chunks of one document were rendered: the citation is listed twice.
RenderContextMirrorsSearchWitness ==
    /\ lastOp = "renderContext"
    /\ Len(rendered.sources) = 2
    /\ rendered.sources[1] = rendered.sources[2]

\* C8: search, renderContext and getAllDocuments leave the document store,
\* the chunk store (its order included) and the config as the last init
\* left them, so every answer is the answer of that loaded state to the
\* query, however many queries ran before.
ReadersLeaveStoresUnchanged ==
    /\ _data = loaded.data
    /\ _chunks = loaded.chunks
    /\ _config = loaded.config
    /\ lastOp \in {"search", "renderContext"} =>
           results = search(query, loaded.data, loaded.chunks, loaded.config)
    /\ lastOp = "getAllDocuments" => docs = loaded.data

\* A search that ranks a later chunk first ran after another reader.
ReadersLeaveStoresUnchangedWitness ==
    /\ lastOp = "search"
    /\ repeated
    /\ Len(results) >= 2
    /\ results[1].content # _chunks[1].content

====
